---- MODULE Spec2Model ----
(***************************************************************************)
(* Model of "Assignments/Assignment 4/mongo_load.py": the row sanitizers,  *)
(* the two document builders, the chunked loader load_to_mongo with its    *)
(* two bulk writes, and the CRUD helpers, over the two collections         *)
(* invoices_txn and customers_centric.                                     *)
(*                                                                         *)
(* Text is a sequence of one-character strings.  A cell of the data frame  *)
(* is a record [k, n, s]: k is the kind of the pandas value ("nan", "int", *)
(* "float", "text"), n the number (a float is held in tenths), s the text. *)
(* A Python value stored in a document is a record [t, n] with t in        *)
(* "None", "int", "float", "nan".  The invoice_date field is left out of   *)
(* the documents; the frames always carry the columns InvoiceNo,           *)
(* StockCode, Quantity, UnitPrice, Description and Country.                *)
(***************************************************************************)
EXTENDS Integers, Sequences, FiniteSets, TLC

\* ------------------------------------------------------------------ bounds
MaxRows == 2
MaxCalls == 2
MaxGroup == 2

\* --------------------------------------------------------- program constants
DuplicateKey == 11000
\* a write error of the store that is no duplicate key (document validation)
OtherWriteError == 121

\* ------------------------------------------------------------------ values
Nan == [k |-> "nan", n |-> 0, s |-> <<>>]
IntCell(i) == [k |-> "int", n |-> i, s |-> <<>>]
FloatCell(t) == [k |-> "float", n |-> t, s |-> <<>>]
TextCell(s) == [k |-> "text", n |-> 0, s |-> s]

PyNone == [t |-> "None", n |-> 0]
PyInt(i) == [t |-> "int", n |-> i]
PyFloat(t) == [t |-> "float", n |-> t]
PyNaN == [t |-> "nan", n |-> 0]

Digits == <<"0", "1", "2", "3", "4", "5", "6", "7", "8", "9">>
Letters == <<"C", "F", "K", "R", "S", "T", "U", "X", "a", "b", "c", "n">>
\* the characters in their code-point order
Alphabet == <<"+", "-", ".">> \o Digits \o Letters

IsDigit(c) == \E i \in 1..10 : Digits[i] = c
DigitVal(c) == (CHOOSE i \in 1..10 : Digits[i] = c) - 1
CharRank(c) == CHOOSE i \in 1..Len(Alphabet) : Alphabet[i] = c

RECURSIVE NatStr(_)
NatStr(i) == IF i < 10 THEN <<Digits[i + 1]>> ELSE NatStr(i \div 10) \o <<Digits[(i % 10) + 1]>>

IntStr(i) == IF i < 0 THEN <<"-">> \o NatStr(-i) ELSE NatStr(i)

\* repr of a float held in tenths: 17850.0, -2.7
FloatStr(t) ==
    LET a == IF t < 0 THEN -t ELSE t
    IN  (IF t < 0 THEN <<"-">> ELSE <<>>) \o NatStr(a \div 10) \o <<".">> \o NatStr(a % 10)

\* str(x) of a cell
Str(x) ==
    CASE x.k = "nan" -> <<"n", "a", "n">>
      [] x.k = "int" -> IntStr(x.n)
      [] x.k = "float" -> FloatStr(x.n)
      [] x.k = "text" -> x.s

isna(x) == x.k = "nan"

AllDigits(s) == \A i \in 1..Len(s) : IsDigit(s[i])

RECURSIVE DigitsVal(_)
DigitsVal(s) == IF s = <<>> THEN 0 ELSE 10 * DigitsVal(SubSeq(s, 1, Len(s) - 1)) + DigitVal(s[Len(s)])

\* float(text): [ok, t], for texts of an optional sign, digits and at most one
\* fractional digit; any other text of the alphabet raises ValueError
ParseFloat(s) ==
    LET signed == Len(s) > 0 /\ s[1] \in {"-", "+"}
        body == IF signed THEN Tail(s) ELSE s
        dots == {i \in 1..Len(body) : body[i] = "."}
        p == CHOOSE i \in dots : TRUE
        ip == IF dots = {} THEN body ELSE SubSeq(body, 1, p - 1)
        fp == IF dots = {} THEN <<>> ELSE SubSeq(body, p + 1, Len(body))
        ok == /\ Cardinality(dots) <= 1
              /\ AllDigits(ip) /\ AllDigits(fp)
              /\ Len(ip) + Len(fp) > 0
              /\ Len(fp) <= 1
        mag == 10 * DigitsVal(ip) + DigitsVal(fp)
    IN  IF ok THEN [ok |-> TRUE, t |-> IF signed /\ s[1] = "-" THEN -mag ELSE mag]
        ELSE [ok |-> FALSE, t |-> 0]

\* int(f) of a float in tenths truncates toward zero
Trunc(t) == IF t < 0 THEN -((-t) \div 10) ELSE t \div 10

is_cancellation(invoice_no) == Len(invoice_no) > 0 /\ invoice_no[1] = "C"

safe_float(x) ==
    CASE x.k = "nan" -> PyNaN
      [] x.k = "int" -> PyFloat(10 * x.n)
      [] x.k = "float" -> PyFloat(x.n)
      [] x.k = "text" -> IF ParseFloat(x.s).ok THEN PyFloat(ParseFloat(x.s).t) ELSE PyNone

\* int(float(x)); int(nan) raises ValueError
safe_int(x) ==
    CASE x.k = "nan" -> PyNone
      [] x.k = "int" -> PyInt(x.n)
      [] x.k = "float" -> PyInt(Trunc(x.n))
      [] x.k = "text" -> IF ParseFloat(x.s).ok THEN PyInt(Trunc(ParseFloat(x.s).t)) ELSE PyNone

\* --------------------------------------------------------------- builders
TxnItem(r) ==
    [stock_code |-> Str(r.StockCode),
     description |-> IF isna(r.Description) THEN <<>> ELSE Str(r.Description),
     has_description |-> ~isna(r.Description),
     unit_price |-> safe_float(r.UnitPrice),
     quantity |-> safe_int(r.Quantity)]

\* every line built from the first row of the group
build_txn_doc_first(group) ==
    LET first == group[1]
        invoice_no == Str(first.InvoiceNo)
    IN  [_id |-> invoice_no,
         customer |-> [id |-> safe_int(first.CustomerID), country |-> Str(first.Country)],
         items |-> [i \in 1..Len(group) |-> TxnItem(first)],
         is_cancellation |-> is_cancellation(invoice_no)]

build_txn_doc(group) ==
    LET first == group[1]
        invoice_no == Str(first.InvoiceNo)
    IN  [_id |-> invoice_no,
         customer |-> [id |-> safe_int(first.CustomerID), country |-> Str(first.Country)],
         items |-> [i \in 1..Len(group) |-> TxnItem(group[i])],
         is_cancellation |-> is_cancellation(invoice_no)]

\* the embedded line of the customer-centric form: no description
CustItem(r) ==
    [stock_code |-> Str(r.StockCode),
     quantity |-> safe_int(r.Quantity),
     unit_price |-> safe_float(r.UnitPrice)]

\* ---------------------------------------------------------------- groupby
RECURSIVE TextLess(_, _)
TextLess(s, t) ==
    IF t = <<>> THEN FALSE
    ELSE IF s = <<>> THEN TRUE
    ELSE IF s[1] # t[1] THEN CharRank(s[1]) < CharRank(t[1])
    ELSE TextLess(Tail(s), Tail(t))

Tenths(x) == IF x.k = "int" THEN 10 * x.n ELSE x.n

\* the order of the group keys: numbers before text, each in its own order
KeyLess(a, b) ==
    IF a.k = "text" /\ b.k = "text" THEN TextLess(a.s, b.s)
    ELSE IF a.k = "text" THEN FALSE
    ELSE IF b.k = "text" THEN TRUE
    ELSE Tenths(a) < Tenths(b)

RECURSIVE SortKeys(_)
SortKeys(K) ==
    IF K = {} THEN <<>>
    ELSE LET m == CHOOSE a \in K : \A b \in K \ {a} : KeyLess(a, b)
         IN  <<m>> \o SortKeys(K \ {m})

RECURSIVE SelectRows(_, _)
SelectRows(df, key) ==
    IF df = <<>> THEN <<>>
    ELSE (IF Head(df).InvoiceNo = key THEN <<Head(df)>> ELSE <<>>) \o SelectRows(Tail(df), key)

\* df.groupby("InvoiceNo"): the groups in key order, rows in frame order
GroupBy(df) ==
    LET keys == SortKeys({df[i].InvoiceNo : i \in 1..Len(df)} \ {Nan})
    IN  [j \in 1..Len(keys) |-> SelectRows(df, keys[j])]

customer_upsert_ops(df) ==
    LET groups == GroupBy(df)
        Op(g) ==
            LET invoice_no == Str(g[1].InvoiceNo)
            IN  [filter_id |-> safe_int(g[1].CustomerID),
                 setOnInsert |-> Str(g[1].Country),
                 push |-> [invoice_no |-> invoice_no,
                           items |-> [i \in 1..Len(g) |-> CustItem(g[i])],
                           is_cancellation |-> is_cancellation(invoice_no)]]
    IN  [j \in 1..Len(groups) |-> Op(groups[j])]

\* ------------------------------------------------------------------ store
\* insert_many(docs, ordered=False): every document is tried; the ones in
\* bad are rejected by the store, a taken _id is a duplicate key
RECURSIVE InsertFrom(_, _, _, _)
InsertFrom(coll, docs, bad, i) ==
    IF i > Len(docs) THEN [coll |-> coll, errs |-> <<>>]
    ELSE LET d == docs[i]
             code == IF i \in bad THEN OtherWriteError
                     ELSE IF \E e \in coll : e._id = d._id THEN DuplicateKey
                     ELSE 0
             rest == InsertFrom(IF code = 0 THEN coll \cup {d} ELSE coll, docs, bad, i + 1)
         IN  [coll |-> rest.coll,
              errs |-> (IF code = 0 THEN <<>> ELSE <<code>>) \o rest.errs]

\* a document with a taken _id replaces the stored one
RECURSIVE ReplaceFrom(_, _, _, _)
ReplaceFrom(coll, docs, bad, i) ==
    IF i > Len(docs) THEN [coll |-> coll, errs |-> <<>>]
    ELSE LET d == docs[i]
             rest == ReplaceFrom(IF i \in bad THEN coll
                                 ELSE {e \in coll : e._id # d._id} \cup {d}, docs, bad, i + 1)
         IN  [coll |-> rest.coll,
              errs |-> (IF i \in bad THEN <<OtherWriteError>> ELSE <<>>) \o rest.errs]

insert_many_replace(coll, docs, bad) == ReplaceFrom(coll, docs, bad, 1)

insert_many(coll, docs, bad) == InsertFrom(coll, docs, bad, 1)

\* $set in place of $setOnInsert
UpdateOne_set(coll, op) ==
    IF \E d \in coll : d._id = op.filter_id
    THEN {IF d._id = op.filter_id
          THEN [d EXCEPT !.invoices = Append(@, op.push), !.country = op.setOnInsert]
          ELSE d : d \in coll}
    ELSE coll \cup {[_id |-> op.filter_id, country |-> op.setOnInsert, invoices |-> <<op.push>>]}

\* UpdateOne({_id}, {$setOnInsert: {country}, $push: {invoices}}, upsert=True)
UpdateOne(coll, op) ==
    IF \E d \in coll : d._id = op.filter_id
    THEN {IF d._id = op.filter_id THEN [d EXCEPT !.invoices = Append(@, op.push)] ELSE d : d \in coll}
    ELSE coll \cup {[_id |-> op.filter_id, country |-> op.setOnInsert, invoices |-> <<op.push>>]}

\* bulk_write(ops, ordered=False)
RECURSIVE BulkFrom(_, _, _, _)
BulkFrom(coll, ops, bad, i) ==
    IF i > Len(ops) THEN [coll |-> coll, errs |-> <<>>]
    ELSE LET rest == BulkFrom(IF i \in bad THEN coll ELSE UpdateOne(coll, ops[i]), ops, bad, i + 1)
         IN  [coll |-> rest.coll,
              errs |-> (IF i \in bad THEN <<OtherWriteError>> ELSE <<>>) \o rest.errs]

bulk_write(coll, ops, bad) == BulkFrom(coll, ops, bad, 1)

\* re-raise on every BulkWriteError
Tolerated_none(errs) == errs = <<>>

\* the except clause of both bulk writes: re-raise unless every error is 11000
Tolerated(errs) == \A i \in 1..Len(errs) : errs[i] = DuplicateKey

\* ------------------------------------------------------------------ inputs
Row(inv, stock, qty, cust, country) ==
    [InvoiceNo |-> inv, StockCode |-> stock, Description |-> Nan, Quantity |-> qty,
     UnitPrice |-> FloatCell(25), CustomerID |-> cust, Country |-> country]

UK == TextCell(<<"U", "K">>)
FR == TextCell(<<"F", "R">>)
StockS == TextCell(<<"S">>)
StockT == TextCell(<<"T">>)

\* the rows a data set is made of: two invoices (5 and C5), two customers
\* (read as the floats 1.0 and 2.0), a repeated stock code, an unparseable
\* quantity, and rows that lack a required field
RowSet ==
    {Row(IntCell(5), StockS, IntCell(6), FloatCell(10), UK),
     Row(IntCell(5), StockS, TextCell(<<"a", "b", "c">>), FloatCell(20), FR),
     Row(TextCell(<<"C", "5">>), StockT, FloatCell(-27), FloatCell(10), FR),
     Row(Nan, StockS, IntCell(6), FloatCell(10), UK),
     Row(IntCell(5), StockT, Nan, FloatCell(10), UK),
     Row(TextCell(<<"C", "5">>), StockT, IntCell(6), Nan, UK)}

RECURSIVE SeqsUpTo(_, _)
SeqsUpTo(S, n) ==
    IF n = 0 THEN {<<>>}
    ELSE LET shorter == SeqsUpTo(S, n - 1)
         IN  shorter \cup {Append(q, x) : q \in {r \in shorter : Len(r) = n - 1}, x \in S}

Datasets == SeqsUpTo(RowSet, MaxRows) \ {<<>>}

\* a file without the CustomerID column: no row has a cell there
NoCustomerID(rows) == \A i \in 1..Len(rows) : isna(rows[i].CustomerID)

InvoiceNos == {<<"5">>, <<"C", "5">>}
StockCodes == {<<"S">>, <<"T">>}
NewQty == PyInt(9)

\* the documents handed to create_invoice
CreateDocs ==
    {[_id |-> id,
      customer |-> [id |-> PyInt(2), country |-> <<"F", "R">>],
      items |-> <<[stock_code |-> <<"T">>, description |-> <<"X">>, has_description |-> TRUE,
                   unit_price |-> PyFloat(11), quantity |-> PyInt(2)]>>,
      is_cancellation |-> FALSE] : id \in {<<"5">>, <<"X">>}}

\* ------------------------------------------------------------------- state
VARIABLES
    dataset,            \* the rows of the input file
    hasCustomerID,      \* whether the file has a CustomerID column
    invoices_txn,       \* the collection, a set of documents with distinct _id
    customers_centric,  \* the collection, a set of documents with distinct _id
    pc,                 \* "idle", or the place in load_to_mongo: "insert", "upsert", "finally"
    chunks,             \* the frames of the running load_to_mongo
    idx,                \* the frame being processed
    message,            \* what the last call printed at its end
    callerSaw,          \* how the last call ended for its caller
    log,                \* the bulk writes of the running load_to_mongo
    last,               \* the last call and its arguments
    calls,              \* calls of load_to_mongo and of the helpers so far
    pristine,           \* both collections were empty when the load started
    rerun,              \* the load started right after a completed load
    txnAfter,           \* invoices_txn when the last call, a completed load, returned
    loaded,             \* the customer ids whose upsert the loader has applied
    group,              \* the argument of build_txn_doc
    built               \* its result

vars == <<dataset, hasCustomerID, invoices_txn, customers_centric, pc, chunks, idx, message,
          callerSaw, log, last, calls, pristine, rerun, txnAfter, loaded, group, built>>

Call(name, id, stock) == [op |-> name, id |-> id, stock |-> stock]

\* empty collections, nothing called yet
Fresh ==
    /\ invoices_txn = {}
    /\ customers_centric = {}
    /\ pc = "idle"
    /\ chunks = <<>>
    /\ idx = 0
    /\ message = "none"
    /\ callerSaw = "none"
    /\ log = <<>>
    /\ last = Call("none", <<>>, <<>>)
    /\ calls = 0
    /\ pristine = FALSE
    /\ rerun = FALSE
    /\ txnAfter = {}
    /\ loaded = {}

Init ==
    /\ dataset \in Datasets
    /\ hasCustomerID \in {b \in BOOLEAN : b \/ NoCustomerID(dataset)}
    /\ Fresh
    /\ group = <<>>
    /\ built = {}

\* ------------------------------------------------------------------ loader
\* pd.read_csv(path, chunksize=k): frames of k rows, the last one shorter;
\* a falsy chunksize reads one frame
Chunked(rows, k) ==
    IF k = 0 THEN <<rows>>
    ELSE [j \in 1..((Len(rows) + k - 1) \div k) |->
             SubSeq(rows, (j - 1) * k + 1, IF j * k < Len(rows) THEN j * k ELSE Len(rows))]

RECURSIVE DropNa(_)
DropNa(df) ==
    IF df = <<>> THEN <<>>
    ELSE LET r == Head(df)
         IN  (IF isna(r.InvoiceNo) \/ isna(r.StockCode) \/ isna(r.Quantity) \/ isna(r.CustomerID)
              THEN <<>> ELSE <<r>>) \o DropNa(Tail(df))

TxnDocs(df) == LET groups == GroupBy(df) IN [j \in 1..Len(groups) |-> build_txn_doc(groups[j])]

Entry(step, errs, raised) == [frame |-> idx, step |-> step, errs |-> errs, raised |-> raised]

LoaderGhosts == <<pristine, rerun>>
Fixed == <<dataset, hasCustomerID, group, built>>

StartLoad(chunksize) ==
    /\ pc = "idle"
    /\ calls < MaxCalls
    /\ calls' = calls + 1
    /\ chunks' = Chunked(dataset, chunksize)
    /\ idx' = 1
    /\ pc' = "insert"
    /\ log' = <<>>
    /\ message' = "none"
    /\ callerSaw' = "none"
    /\ last' = Call("load_to_mongo", <<>>, <<>>)
    /\ pristine' = (invoices_txn = {} /\ customers_centric = {})
    /\ rerun' = (message = "completed")
    /\ UNCHANGED <<invoices_txn, customers_centric, txnAfter, loaded, Fixed>>

\* the end of process_frame: the next frame, or "Load completed."
FrameDone ==
    IF idx < Len(chunks)
    THEN /\ idx' = idx + 1
         /\ pc' = "insert"
         /\ UNCHANGED <<chunks, message, callerSaw>>
    ELSE /\ idx' = idx
         /\ pc' = "finally"
         /\ message' = "completed"
         /\ UNCHANGED <<chunks, callerSaw>>

\* the raise of a bulk write reaches "except PyMongoError" of load_to_mongo
Abort ==
    /\ idx' = idx
    /\ pc' = "finally"
    /\ message' = "mongo_error"
    /\ UNCHANGED <<chunks, callerSaw>>

\* process_frame up to the bulk insert into invoices_txn
InsertTxn(bad) ==
    /\ pc = "insert"
    /\ LET df == DropNa(chunks[idx])
           txn_docs == TxnDocs(df)
           res == insert_many(invoices_txn, txn_docs, bad)
       IN  IF ~hasCustomerID \/ txn_docs = <<>>
           THEN /\ bad = {}
                /\ FrameDone
                /\ UNCHANGED <<invoices_txn, log>>
           ELSE /\ invoices_txn' = res.coll
                /\ log' = Append(log, Entry("insert", res.errs, ~Tolerated(res.errs)))
                /\ IF Tolerated(res.errs)
                   THEN /\ pc' = "upsert"
                        /\ UNCHANGED <<idx, chunks, message, callerSaw>>
                   ELSE Abort
    /\ UNCHANGED <<customers_centric, last, calls, txnAfter, loaded, LoaderGhosts, Fixed>>

\* the bulk upsert into customers_centric
UpsertCustomers(bad) ==
    /\ pc = "upsert"
    /\ LET ops == customer_upsert_ops(DropNa(chunks[idx]))
           res == bulk_write(customers_centric, ops, bad)
       IN  /\ customers_centric' = res.coll
           /\ loaded' = loaded \cup {ops[i].filter_id : i \in (1..Len(ops)) \ bad}
           /\ log' = Append(log, Entry("upsert", res.errs, ~Tolerated(res.errs)))
           /\ IF Tolerated(res.errs) THEN FrameDone ELSE Abort
    /\ UNCHANGED <<invoices_txn, last, calls, txnAfter, LoaderGhosts, Fixed>>

\* the except clause re-raises
Return_reraise ==
    /\ pc = "finally"
    /\ pc' = "idle"
    /\ callerSaw' = IF message = "mongo_error" THEN "raised" ELSE "returned"
    /\ chunks' = <<>>
    /\ idx' = 0
    /\ log' = <<>>
    /\ pristine' = FALSE
    /\ rerun' = FALSE
    /\ txnAfter' = IF message = "completed" THEN invoices_txn ELSE {}
    /\ UNCHANGED <<invoices_txn, customers_centric, message, last, calls, loaded, Fixed>>

\* "finally: client.close()": every exception was caught, the call returns
Return ==
    /\ pc = "finally"
    /\ pc' = "idle"
    /\ callerSaw' = "returned"
    /\ chunks' = <<>>
    /\ idx' = 0
    /\ log' = <<>>
    /\ pristine' = FALSE
    /\ rerun' = FALSE
    /\ txnAfter' = IF message = "completed" THEN invoices_txn ELSE {}
    /\ UNCHANGED <<invoices_txn, customers_centric, message, last, calls, loaded, Fixed>>

\* ------------------------------------------------------------ CRUD helpers
\* a helper catches PyMongoError, prints msg and returns
Helper(call, failed, msg) ==
    /\ pc = "idle"
    /\ calls < MaxCalls
    /\ calls' = calls + 1
    /\ last' = call
    /\ message' = IF failed THEN msg ELSE "none"
    /\ callerSaw' = "returned"
    /\ txnAfter' = {}
    /\ UNCHANGED <<pc, chunks, idx, log, loaded, LoaderGhosts, Fixed>>

\* insert_one; a taken _id raises DuplicateKeyError, reported as "Create failed"
create_invoice(invoice_doc, down) ==
    LET fails == down \/ \E e \in invoices_txn : e._id = invoice_doc._id
    IN  /\ Helper(Call("create_invoice", invoice_doc._id, <<>>), fails, "Create failed")
        /\ invoices_txn' = IF fails THEN invoices_txn ELSE invoices_txn \cup {invoice_doc}
        /\ UNCHANGED customers_centric

\* the index of the first line with the stock code, 0 when there is none
FirstMatch(items, stock_code) ==
    IF \E i \in 1..Len(items) : items[i].stock_code = stock_code
    THEN CHOOSE i \in 1..Len(items) :
            /\ items[i].stock_code = stock_code
            /\ \A j \in 1..(i - 1) : items[j].stock_code # stock_code
    ELSE 0

\* every line with the stock code is set
SetQuantity_all(d, invoice_no, stock_code, new_qty) ==
    IF d._id = invoice_no
    THEN [d EXCEPT !.items = [i \in 1..Len(d.items) |->
                                 IF d.items[i].stock_code = stock_code
                                 THEN [d.items[i] EXCEPT !.quantity = new_qty]
                                 ELSE d.items[i]]]
    ELSE d

\* update_one({_id, items.stock_code}, {$set: {items.$.quantity}})
SetQuantity(d, invoice_no, stock_code, new_qty) ==
    IF d._id = invoice_no /\ FirstMatch(d.items, stock_code) > 0
    THEN [d EXCEPT !.items[FirstMatch(d.items, stock_code)].quantity = new_qty]
    ELSE d

update_item_quantity(invoice_no, stock_code, new_qty, down) ==
    /\ Helper(Call("update_item_quantity", invoice_no, stock_code), down, "Update failed")
    /\ invoices_txn' = IF down THEN invoices_txn
                       ELSE {SetQuantity(d, invoice_no, stock_code, new_qty) : d \in invoices_txn}
    /\ UNCHANGED customers_centric

\* the pull scoped to the customer of the invoices_txn document
Pull_owner(c, invoice_no) ==
    IF \E d \in invoices_txn : d._id = invoice_no /\ d.customer.id = c._id
    THEN [c EXCEPT !.invoices = SelectSeq(@, LAMBDA inv : inv.invoice_no # invoice_no)]
    ELSE c

\* update_many({}, {$pull: {invoices: {invoice_no}}})
Pull(c, invoice_no) ==
    [c EXCEPT !.invoices = SelectSeq(@, LAMBDA inv : inv.invoice_no # invoice_no)]

\* a customer left without invoices is deleted too
delete_invoice_prune(invoice_no, down) ==
    /\ Helper(Call("delete_invoice", invoice_no, <<>>), down # 0, "Delete failed")
    /\ invoices_txn' = IF down = 1 THEN invoices_txn
                       ELSE {d \in invoices_txn : d._id # invoice_no}
    /\ customers_centric' = IF down # 0 THEN customers_centric
                            ELSE {p \in {Pull(c, invoice_no) : c \in customers_centric} :
                                     p.invoices # <<>>}

\* down names the store call that raises PyMongoError: 0 none, 1 delete_one, 2 update_many
delete_invoice(invoice_no, down) ==
    /\ Helper(Call("delete_invoice", invoice_no, <<>>), down # 0, "Delete failed")
    /\ invoices_txn' = IF down = 1 THEN invoices_txn
                       ELSE {d \in invoices_txn : d._id # invoice_no}
    /\ customers_centric' = IF down # 0 THEN customers_centric
                            ELSE {Pull(c, invoice_no) : c \in customers_centric}

\* the bulk write of the frame at hand, and the writes the store may reject
Writes == IF pc \in {"insert", "upsert"} THEN 1..Len(GroupBy(DropNa(chunks[idx]))) ELSE {}

Next ==
    \/ \E chunksize \in 0..MaxRows : StartLoad(chunksize)
    \/ \E bad \in SUBSET Writes : InsertTxn(bad)
    \/ \E bad \in SUBSET Writes : UpsertCustomers(bad)
    \/ Return
    \/ \E d \in CreateDocs, down \in BOOLEAN : create_invoice(d, down)
    \/ \E n \in InvoiceNos, s \in StockCodes, down \in BOOLEAN : update_item_quantity(n, s, NewQty, down)
    \/ \E n \in InvoiceNos, down \in 0..2 : delete_invoice(n, down)

Spec == Init /\ [][Next]_vars

\* ------------------------------------------- build_txn_doc on its own inputs
BuildRows ==
    {[InvoiceNo |-> IntCell(5), StockCode |-> stock, Description |-> desc, Quantity |-> qty,
      UnitPrice |-> price, CustomerID |-> FloatCell(10), Country |-> UK] :
        stock \in {StockS, StockT},
        desc \in {Nan, TextCell(<<"X">>)},
        qty \in {IntCell(6), FloatCell(-27), TextCell(<<"a", "b", "c">>), TextCell(<<"7">>), Nan},
        price \in {FloatCell(25), TextCell(<<"a", "b", "c">>)}}

\* the rows of one invoice, numbered 5 or C5
BuildGroups ==
    LET Renumber(g) == [i \in 1..Len(g) |-> [g[i] EXCEPT !.InvoiceNo = TextCell(<<"C", "5">>)]]
        groups == SeqsUpTo(BuildRows, MaxGroup) \ {<<>>}
    IN  groups \cup {Renumber(g) : g \in groups}

InitBuild ==
    /\ dataset = <<>>
    /\ hasCustomerID = TRUE
    /\ Fresh
    /\ group \in BuildGroups
    /\ built = {}

BuildTxnDoc ==
    /\ built = {}
    /\ built' = {build_txn_doc(group)}
    /\ UNCHANGED <<dataset, hasCustomerID, invoices_txn, customers_centric, pc, chunks, idx,
                   message, callerSaw, log, last, calls, pristine, rerun, txnAfter, loaded, group>>

NextBuild == BuildTxnDoc

SpecBuild == InitBuild /\ [][NextBuild]_vars

\* ================================================================== claims
Range(q) == {q[i] : i \in 1..Len(q)}
EmbeddedNos(c) == {c.invoices[i].invoice_no : i \in 1..Len(c.invoices)}
OnlyDuplicates(errs) == \A i \in 1..Len(errs) : errs[i] = DuplicateKey
NoTrace(id) ==
    /\ \A d \in invoices_txn : d._id # id
    /\ \A c \in customers_centric : id \notin EmbeddedNos(c)

C2_RerunIdempotent ==
    rerun =>
        /\ invoices_txn = txnAfter
        /\ (\A j \in 1..Len(log) : OnlyDuplicates(log[j].errs)) =>
              /\ \A j \in 1..Len(log) : ~log[j].raised
              /\ pc = "finally" => message = "completed"

\* a completed rerun whose bulk insert met duplicate keys
C2_Witness ==
    /\ rerun
    /\ pc = "finally"
    /\ message = "completed"
    /\ invoices_txn # {}
    /\ \E j \in 1..Len(log) : log[j].step = "insert" /\ DuplicateKey \in Range(log[j].errs)

\* the documents of the whole data set, one per invoice number, each built
\* from all retained rows of that number
ExpectedTxn == IF hasCustomerID THEN {build_txn_doc(g) : g \in Range(GroupBy(DropNa(dataset)))} ELSE {}

FirstLoadCompleted == pc = "finally" /\ pristine /\ message = "completed"

\* C3 as stated: after a completed load into empty collections, in one frame
\* or in chunks of any size, invoices_txn holds exactly the documents built
\* from the full row set of each invoice number.
C3_OneDocPerInvoiceFromAllRows == FirstLoadCompleted => invoices_txn = ExpectedTxn

\* C4: no step changes the country of an existing customers_centric document.
C4_CountryFirstWriteWins ==
    [][\A c \in customers_centric :
          \E d \in customers_centric' : d._id = c._id /\ d.country = c.country]_vars

\* customer 1 was created with country UK by invoice 5, and the later upsert
\* of invoice C5, whose country is FR, was applied to it
C4_Witness ==
    \E c \in customers_centric :
        /\ c._id = PyInt(1)
        /\ c.country = <<"U", "K">>
        /\ Len(c.invoices) >= 2
        /\ c.invoices[1].invoice_no = <<"5">>
        /\ <<"C", "5">> \in EmbeddedNos(c)

\* C5: the _ids of customers_centric are exactly the customer ids of the
\* invoices the loader has loaded (whose upsert it has applied).
C5_CustomerDocIffLoaded == {c._id : c \in customers_centric} = loaded

\* an invoice of customer 2 was created by create_invoice, customer 1 was
\* loaded, and customer 2 never was
C5_Witness ==
    /\ last.op = "create_invoice"
    /\ message = "none"
    /\ PyInt(1) \in loaded
    /\ PyInt(2) \notin loaded
    /\ \E d \in invoices_txn : d.customer.id = PyInt(2)

\* the upsert of the frame of log[j] is issued next, or was
Step4Issued(j) ==
    IF j < Len(log)
    THEN log[j + 1].step = "upsert" /\ log[j + 1].frame = log[j].frame
    ELSE pc = "upsert"

\* C6 as stated: after a bulk insert with write errors of any kind, the
\* customer upsert of the same frame is still issued.
C6_Step4AfterAnyStep3Error ==
    \A j \in 1..Len(log) :
        log[j].step = "insert" /\ log[j].errs # <<>> => Step4Issued(j)

\* C6 amended: it is issued when every write error of the bulk insert is a
\* duplicate key; any other write error ends the load before the upsert.
C6_Step4AfterDuplicateErrors ==
    \A j \in 1..Len(log) :
        log[j].step = "insert" /\ log[j].errs # <<>> =>
            IF OnlyDuplicates(log[j].errs) THEN Step4Issued(j)
            ELSE j = Len(log) /\ pc = "finally" /\ message = "mongo_error"

\* a bulk insert that met duplicate keys, and the upsert that followed it
C6_Witness ==
    \E j \in 1..Len(log) :
        /\ j < Len(log)
        /\ log[j].step = "insert"
        /\ DuplicateKey \in Range(log[j].errs)
        /\ log[j + 1].step = "upsert"

\* what the log says of the bulk writes: a write with duplicate-key errors
\* only does not raise and the load goes on; any other write error raises, is
\* the last write of the load, and the load ends with "Mongo error"
BulkWritePolicy ==
    \A j \in 1..Len(log) :
        IF OnlyDuplicates(log[j].errs)
        THEN /\ ~log[j].raised
             /\ IF j < Len(log)
                THEN IF log[j].step = "insert" THEN Step4Issued(j)
                     ELSE log[j + 1].step = "insert" /\ log[j + 1].frame > log[j].frame
                ELSE IF log[j].step = "insert" THEN pc = "upsert"
                     ELSE \/ pc = "insert" /\ idx > log[j].frame
                          \/ pc = "finally" /\ message = "completed"
        ELSE /\ log[j].raised
             /\ j = Len(log)
             /\ pc = "finally"
             /\ message = "mongo_error"
             /\ idx = log[j].frame

\* the writes of the frames before the one at hand are in place
EarlierWritesInPlace ==
    \A f \in 1..(idx - 1) :
        \A g \in Range(GroupBy(DropNa(chunks[f]))) :
            /\ \E d \in invoices_txn : d._id = Str(g[1].InvoiceNo)
            /\ \E c \in customers_centric :
                  c._id = safe_int(g[1].CustomerID) /\ Str(g[1].InvoiceNo) \in EmbeddedNos(c)

\* C7 as stated: duplicate-key errors are tolerated; any other write error
\* ends the load, leaves the earlier writes in place and reaches the caller
\* of load_to_mongo as an exception.
C7_OtherErrorReachesCaller ==
    /\ BulkWritePolicy
    /\ pc = "finally" /\ hasCustomerID => EarlierWritesInPlace
    /\ message = "mongo_error" /\ callerSaw # "none" => callerSaw = "raised"

\* C7 amended: the same, but the error is caught in load_to_mongo, printed as
\* "Mongo error", and load_to_mongo returns to its caller.
C7_OtherErrorIsPrinted ==
    /\ BulkWritePolicy
    /\ pc = "finally" /\ hasCustomerID => EarlierWritesInPlace
    /\ message = "mongo_error" /\ callerSaw # "none" => callerSaw = "returned"

\* a load ended by a write error in its second frame, the first frame written
C7_Witness ==
    /\ pc = "finally"
    /\ message = "mongo_error"
    /\ idx = 2
    /\ invoices_txn # {}
    /\ customers_centric # {}

UpdateStep == last'.op = "update_item_quantity" /\ calls' = calls + 1

HasLine(d, n, s) == d._id = n /\ \E i \in 1..Len(d.items) : d.items[i].stock_code = s

\* p is d with the quantity of line k set to NewQty and nothing else changed
SetAt(d, p, k) ==
    /\ p._id = d._id
    /\ p.customer = d.customer
    /\ p.is_cancellation = d.is_cancellation
    /\ Len(p.items) = Len(d.items)
    /\ \A i \in 1..Len(d.items) :
          p.items[i] = IF i = k THEN [d.items[i] EXCEPT !.quantity = NewQty] ELSE d.items[i]

C9_OneLinePerRow ==
    \A d \in built :
        /\ Len(d.items) = Len(group)
        /\ \A i \in 1..Len(group) :
              /\ d.items[i].stock_code = Str(group[i].StockCode)
              /\ d.items[i].quantity = safe_int(group[i].Quantity)
              /\ d.items[i].unit_price = safe_float(group[i].UnitPrice)
              /\ group[i].Quantity = TextCell(<<"a", "b", "c">>) => d.items[i].quantity = PyNone
              /\ group[i].Quantity = FloatCell(-27) => d.items[i].quantity = PyInt(-2)
              /\ group[i].Quantity = TextCell(<<"7">>) => d.items[i].quantity = PyInt(7)

\* a built document of two different lines, the second with an unparseable
\* quantity
C9_Witness ==
    \E d \in built :
        /\ Len(group) = 2
        /\ group[1].StockCode # group[2].StockCode
        /\ group[2].Quantity = TextCell(<<"a", "b", "c">>)
        /\ d.items[2].quantity = PyNone

Lines(items) == [i \in 1..Len(items) |->
                    [stock_code |-> items[i].stock_code, quantity |-> items[i].quantity,
                     unit_price |-> items[i].unit_price]]

\* C10 as stated: after a completed load into empty collections, every
\* invoices_txn document is embedded exactly once, with the same flag and
\* lines, in the document of its customer, and every embedded invoice has
\* its invoices_txn document.
C10_CollectionsAgree ==
    FirstLoadCompleted =>
        /\ \A d \in invoices_txn :
              \E c \in customers_centric :
                  /\ c._id = d.customer.id
                  /\ Cardinality({i \in 1..Len(c.invoices) : c.invoices[i].invoice_no = d._id}) = 1
                  /\ \A i \in 1..Len(c.invoices) :
                        c.invoices[i].invoice_no = d._id =>
                            /\ c.invoices[i].is_cancellation = d.is_cancellation
                            /\ c.invoices[i].items = Lines(d.items)
        /\ \A c \in customers_centric :
              \A n \in EmbeddedNos(c) : \E d \in invoices_txn : d._id = n

====
